---------------------------- MODULE Spec2Model ----------------------------
(***************************************************************************)
(* mediasoup-client: the Device facade (lib/Device.js) and the ORTC        *)
(* capability negotiation it drives (lib/ortc.js).                         *)
(*                                                                         *)
(* Three specifications share the variables:                               *)
(*   Spec      the Device state machine: load (suspended at the await of   *)
(*             the native capabilities), the queries, transport creation;  *)
(*   SpecOrtc  the pure functions of ortc.js, each applied to inputs drawn *)
(*             from bounded pools and its result recorded in `call';       *)
(*   SpecSdp   the SDP extractor (extractRtpCapabilities,                  *)
(*             extractDtlsParameters), applied the same way.               *)
(***************************************************************************)
EXTENDS Integers, Sequences, FiniteSets, TLC

VARIABLES
    _loaded,                    \* Device._loaded
    _extendedRtpCapabilities,   \* Device._extendedRtpCapabilities
    _recvRtpCapabilities,       \* Device._recvRtpCapabilities
    _canProduceByKind,          \* Device._canProduceByKind
    pending,                    \* load() calls suspended at the await
    loadCalls,                  \* number of load() calls made so far
    builderCalls,               \* number of getExtendedRtpCapabilities runs
    loadedWith,                 \* arguments of the last load() that succeeded
    result,                     \* what the last Device operation returned/threw
    call                        \* the last ortc.js function application

vars ==
    << _loaded, _extendedRtpCapabilities, _recvRtpCapabilities,
       _canProduceByKind, pending, loadCalls, builderCalls, loadedWith,
       result, call >>

deviceVars ==
    << _loaded, _extendedRtpCapabilities, _recvRtpCapabilities,
       _canProduceByKind, pending, loadCalls, builderCalls, loadedWith,
       result >>

---------------------------------------------------------------------------
(* JavaScript values.  A number-valued property that is absent reads as    *)
(* `undefined'; sendRtxPayloadType/recvRtxPayloadType start as `null'.     *)
(* Both are falsy, as is 0; a kind that is not set is the empty string.    *)

undefined == 0 - 1

null == 0 - 2

\* JavaScript truthiness of a number-valued property: if (x) ...
Truthy(x) == x # undefined /\ x # null /\ x # 0

\* String.prototype.toLowerCase on the mime types of the pools.
toLowerCase(s) ==
    CASE s = "audio/OPUS" -> "audio/opus"
      [] s = "audio/PCMU" -> "audio/pcmu"
      [] s = "video/VP8"  -> "video/vp8"
      [] s = "video/H264" -> "video/h264"
      [] OTHER            -> s

\* The keys a codec's `parameters' object may carry; an absent key reads
\* as undefined.
ParamKeys == {"packetization-mode", "apt", "profile-level-id"}

NoParameters == [k \in ParamKeys |-> undefined]

---------------------------------------------------------------------------
(* lib/ortc.js                                                             *)

\* function matchCapCodecs(aCodec, bCodec)
matchCapCodecs(aCodec, bCodec) ==
    LET aMimeType == toLowerCase(aCodec.mimeType)
        bMimeType == toLowerCase(bCodec.mimeType)
        \* (aCodec.parameters || {})['packetization-mode'] || 0
        aPacketizationMode ==
            IF Truthy(aCodec.parameters["packetization-mode"])
            THEN aCodec.parameters["packetization-mode"] ELSE 0
        bPacketizationMode ==
            IF Truthy(bCodec.parameters["packetization-mode"])
            THEN bCodec.parameters["packetization-mode"] ELSE 0
    IN  IF aMimeType # bMimeType THEN FALSE
        ELSE IF aCodec.clockRate # bCodec.clockRate THEN FALSE
        ELSE IF aCodec.channels # bCodec.channels THEN FALSE
        ELSE IF aMimeType = "video/h264"
                /\ aPacketizationMode # bPacketizationMode THEN FALSE
        ELSE TRUE

\* function matchCapHeaderExtensions(aExt, bExt)
matchCapHeaderExtensions(aExt, bExt) ==
    IF aExt.kind # "" /\ bExt.kind # "" /\ aExt.kind # bExt.kind THEN FALSE
    ELSE IF aExt.uri # bExt.uri THEN FALSE
    ELSE TRUE

\* (codecB.rtcpFeedback || []).find(bFb => bFb.type === aFb.type &&
\*   bFb.parameter === aFb.parameter): index of the first such entry, or 0.
RECURSIVE findFb(_, _, _)
findFb(bFbs, aFb, i) ==
    IF i > Len(bFbs) THEN 0
    ELSE IF bFbs[i].type = aFb.type /\ bFbs[i].parameter = aFb.parameter
         THEN i
         ELSE findFb(bFbs, aFb, i + 1)

\* function reduceRtcpFeedback(codecA, codecB): the loop from entry i on.
RECURSIVE reduceFrom(_, _, _)
reduceFrom(aFbs, bFbs, i) ==
    IF i > Len(aFbs) THEN << >>
    ELSE LET m == findFb(bFbs, aFbs[i], 1)
         IN  IF m # 0
             THEN << bFbs[m] >> \o reduceFrom(aFbs, bFbs, i + 1)
             ELSE reduceFrom(aFbs, bFbs, i + 1)

reduceRtcpFeedback(codecA, codecB) ==
    reduceFrom(codecA.rtcpFeedback, codecB.rtcpFeedback, 1)

\* The search for a matching local codec returning the LAST match: the
\* mutant of findMatchingLocalCodec.
findMatchingLocalCodec_last(localCodecs, remoteCodec, i) ==
    LET ms == { j \in i..Len(localCodecs) :
                  matchCapCodecs(localCodecs[j], remoteCodec) }
    IN  IF ms = {} THEN 0 ELSE CHOOSE j \in ms : \A k \in ms : k <= j

\* (localCaps.codecs || []).find(localCodec =>
\*   matchCapCodecs(localCodec, remoteCodec)): index of the first, or 0.
RECURSIVE findMatchingLocalCodec(_, _, _)
findMatchingLocalCodec(localCodecs, remoteCodec, i) ==
    IF i > Len(localCodecs) THEN 0
    ELSE IF matchCapCodecs(localCodecs[i], remoteCodec) THEN i
    ELSE findMatchingLocalCodec(localCodecs, remoteCodec, i + 1)

\* codecs.find(codec => codec.name === 'rtx' &&
\*   codec.parameters.apt === payloadType): index of the first, or 0.
RECURSIVE findRtxCodec(_, _, _)
findRtxCodec(codecs, payloadType, i) ==
    IF i > Len(codecs) THEN 0
    ELSE IF codecs[i].name = "rtx" /\ codecs[i].parameters["apt"] = payloadType
         THEN i
         ELSE findRtxCodec(codecs, payloadType, i + 1)

\* The extended codec built from a matching local codec and a remote codec.
extendedCodecOf(matchingLocalCodec, remoteCodec) ==
    [ name               |-> matchingLocalCodec.name,
      mimeType           |-> matchingLocalCodec.mimeType,
      kind               |-> matchingLocalCodec.kind,
      clockRate          |-> matchingLocalCodec.clockRate,
      sendPayloadType    |-> matchingLocalCodec.preferredPayloadType,
      sendRtxPayloadType |-> null,
      recvPayloadType    |-> remoteCodec.preferredPayloadType,
      recvRtxPayloadType |-> null,
      \* if (!extendedCodec.channels) delete extendedCodec.channels;
      channels           |-> IF Truthy(matchingLocalCodec.channels)
                             THEN matchingLocalCodec.channels ELSE undefined,
      rtcpFeedback       |-> reduceRtcpFeedback(matchingLocalCodec, remoteCodec),
      parameters         |-> matchingLocalCodec.parameters ]

\* getExtendedRtpCapabilities, first loop: "Match media codecs and keep the
\* order preferred by remoteCaps", from remote codec i on.
RECURSIVE matchMediaCodecs(_, _, _)
matchMediaCodecs(localCodecs, remoteCodecs, i) ==
    IF i > Len(remoteCodecs) THEN << >>
    ELSE IF remoteCodecs[i].name = "rtx"
         THEN matchMediaCodecs(localCodecs, remoteCodecs, i + 1)
    ELSE LET m == findMatchingLocalCodec(localCodecs, remoteCodecs[i], 1)
         IN  IF m # 0
             THEN << extendedCodecOf(localCodecs[m], remoteCodecs[i]) >>
                  \o matchMediaCodecs(localCodecs, remoteCodecs, i + 1)
             ELSE matchMediaCodecs(localCodecs, remoteCodecs, i + 1)

\* "Match RTX codecs" with the remote side not required: the mutant of
\* matchRtxCodec.
matchRtxCodec_localOnly(localCodecs, remoteCodecs, extendedCodec) ==
    LET l == findRtxCodec(localCodecs, extendedCodec.sendPayloadType, 1)
    IN  IF l # 0
        THEN [ extendedCodec EXCEPT
                 !.sendRtxPayloadType = localCodecs[l].preferredPayloadType ]
        ELSE extendedCodec

\* getExtendedRtpCapabilities, second loop body: "Match RTX codecs".
matchRtxCodec(localCodecs, remoteCodecs, extendedCodec) ==
    LET l == findRtxCodec(localCodecs, extendedCodec.sendPayloadType, 1)
        r == findRtxCodec(remoteCodecs, extendedCodec.recvPayloadType, 1)
    IN  IF l # 0 /\ r # 0
        THEN [ extendedCodec EXCEPT
                 !.sendRtxPayloadType = localCodecs[l].preferredPayloadType,
                 !.recvRtxPayloadType = remoteCodecs[r].preferredPayloadType ]
        ELSE extendedCodec

\* (localCaps.headerExtensions || []).find(localExt =>
\*   matchCapHeaderExtensions(localExt, remoteExt)): index of the first, or 0.
RECURSIVE findMatchingLocalExt(_, _, _)
findMatchingLocalExt(localExts, remoteExt, i) ==
    IF i > Len(localExts) THEN 0
    ELSE IF matchCapHeaderExtensions(localExts[i], remoteExt) THEN i
    ELSE findMatchingLocalExt(localExts, remoteExt, i + 1)

\* getExtendedRtpCapabilities, third loop: "Match header extensions".
RECURSIVE matchHeaderExtensions(_, _, _)
matchHeaderExtensions(localExts, remoteExts, i) ==
    IF i > Len(remoteExts) THEN << >>
    ELSE LET m == findMatchingLocalExt(localExts, remoteExts[i], 1)
         IN  IF m # 0
             THEN << [ kind   |-> remoteExts[i].kind,
                       uri    |-> remoteExts[i].uri,
                       sendId |-> localExts[m].preferredId,
                       recvId |-> remoteExts[i].preferredId ] >>
                  \o matchHeaderExtensions(localExts, remoteExts, i + 1)
             ELSE matchHeaderExtensions(localExts, remoteExts, i + 1)

\* exports.getExtendedRtpCapabilities = function(localCaps, remoteCaps)
getExtendedRtpCapabilities(localCaps, remoteCaps) ==
    LET media == matchMediaCodecs(localCaps.codecs, remoteCaps.codecs, 1)
    IN  [ codecs           |->
              [ i \in 1..Len(media) |->
                  matchRtxCodec(localCaps.codecs, remoteCaps.codecs, media[i]) ],
          headerExtensions |->
              matchHeaderExtensions(localCaps.headerExtensions,
                                    remoteCaps.headerExtensions, 1),
          fecMechanisms    |-> << >> ]

\* The synthetic rtx capability getRecvRtpCapabilities adds after a codec.
rtxCapCodecOf(capCodec) ==
    [ name                 |-> "rtx",
      mimeType             |-> capCodec.kind \o "/rtx",
      kind                 |-> capCodec.kind,
      clockRate            |-> capCodec.clockRate,
      preferredPayloadType |-> capCodec.recvRtxPayloadType,
      channels             |-> undefined,
      rtcpFeedback         |-> << >>,
      parameters           |->
          [ NoParameters EXCEPT !["apt"] = capCodec.recvPayloadType ] ]

\* getRecvRtpCapabilities, the codec loop from extended codec i on.
RECURSIVE recvCodecsFrom(_, _)
recvCodecsFrom(capCodecs, i) ==
    IF i > Len(capCodecs) THEN << >>
    ELSE LET capCodec == capCodecs[i]
             codec ==
                 [ name                 |-> capCodec.name,
                   mimeType             |-> capCodec.mimeType,
                   kind                 |-> capCodec.kind,
                   clockRate            |-> capCodec.clockRate,
                   preferredPayloadType |-> capCodec.recvPayloadType,
                   channels             |-> IF Truthy(capCodec.channels)
                                            THEN capCodec.channels
                                            ELSE undefined,
                   rtcpFeedback         |-> capCodec.rtcpFeedback,
                   parameters           |-> capCodec.parameters ]
         IN  << codec >>
             \o (IF Truthy(capCodec.recvRtxPayloadType)
                 THEN << rtxCapCodecOf(capCodec) >> ELSE << >>)
             \o recvCodecsFrom(capCodecs, i + 1)

\* exports.getRecvRtpCapabilities = function(extendedRtpCapabilities)
getRecvRtpCapabilities(extendedRtpCapabilities) ==
    [ codecs           |-> recvCodecsFrom(extendedRtpCapabilities.codecs, 1),
      headerExtensions |->
          [ i \in 1..Len(extendedRtpCapabilities.headerExtensions) |->
              [ kind        |-> extendedRtpCapabilities.headerExtensions[i].kind,
                uri         |-> extendedRtpCapabilities.headerExtensions[i].uri,
                preferredId |-> extendedRtpCapabilities.headerExtensions[i].recvId ] ],
      fecMechanisms    |-> extendedRtpCapabilities.fecMechanisms ]

\* canSend answering for every kind but the one asked: the mutant of canSend.
canSend_otherKind(kind, extendedRtpCapabilities) ==
    \E i \in 1..Len(extendedRtpCapabilities.codecs) :
        extendedRtpCapabilities.codecs[i].kind # kind

\* exports.canSend = function(kind, extendedRtpCapabilities)
canSend(kind, extendedRtpCapabilities) ==
    \E i \in 1..Len(extendedRtpCapabilities.codecs) :
        extendedRtpCapabilities.codecs[i].kind = kind

\* exports.canReceive = function(rtpParameters, extendedRtpCapabilities)
canReceive(rtpParameters, extendedRtpCapabilities) ==
    IF Len(rtpParameters.codecs) = 0 THEN FALSE
    ELSE \E i \in 1..Len(extendedRtpCapabilities.codecs) :
             extendedRtpCapabilities.codecs[i].recvPayloadType
                 = rtpParameters.codecs[1].payloadType

\* The codec of RTP parameters made from an extended codec and one of its
\* two payload types.
paramCodecOf(capCodec, payloadType) ==
    [ name         |-> capCodec.name,
      mimeType     |-> capCodec.mimeType,
      clockRate    |-> capCodec.clockRate,
      payloadType  |-> payloadType,
      channels     |-> IF Truthy(capCodec.channels)
                       THEN capCodec.channels ELSE undefined,
      rtcpFeedback |-> capCodec.rtcpFeedback,
      parameters   |-> capCodec.parameters ]

\* The synthetic rtx codec of RTP parameters.
rtxParamCodecOf(capCodec, rtxPayloadType, payloadType) ==
    [ name         |-> "rtx",
      mimeType     |-> capCodec.kind \o "/rtx",
      clockRate    |-> capCodec.clockRate,
      payloadType  |-> rtxPayloadType,
      channels     |-> undefined,
      rtcpFeedback |-> << >>,
      parameters   |-> [ NoParameters EXCEPT !["apt"] = payloadType ] ]

\* getSendingRtpParameters, the codec loop from extended codec i on: it
\* breaks after the first codec of the kind.
RECURSIVE sendCodecsFrom(_, _, _)
sendCodecsFrom(kind, capCodecs, i) ==
    IF i > Len(capCodecs) THEN << >>
    ELSE IF capCodecs[i].kind # kind THEN sendCodecsFrom(kind, capCodecs, i + 1)
    ELSE << paramCodecOf(capCodecs[i], capCodecs[i].sendPayloadType) >>
         \o (IF Truthy(capCodecs[i].sendRtxPayloadType)
             THEN << rtxParamCodecOf(capCodecs[i],
                                     capCodecs[i].sendRtxPayloadType,
                                     capCodecs[i].sendPayloadType) >>
             ELSE << >>)

\* The header-extension loop of getSendingRtpParameters (id = sendId) and of
\* getReceivingFullRtpParameters (id = recvId), from extension i on.
RECURSIVE paramExtsFrom(_, _, _, _)
paramExtsFrom(kind, capExts, sending, i) ==
    IF i > Len(capExts) THEN << >>
    ELSE IF capExts[i].kind # "" /\ capExts[i].kind # kind
         THEN paramExtsFrom(kind, capExts, sending, i + 1)
    ELSE << [ uri |-> capExts[i].uri,
              id  |-> IF sending THEN capExts[i].sendId ELSE capExts[i].recvId ] >>
         \o paramExtsFrom(kind, capExts, sending, i + 1)

\* exports.getSendingRtpParameters = function(kind, extendedRtpCapabilities)
getSendingRtpParameters(kind, extendedRtpCapabilities) ==
    [ mid              |-> null,
      codecs           |-> sendCodecsFrom(kind, extendedRtpCapabilities.codecs, 1),
      headerExtensions |->
          paramExtsFrom(kind, extendedRtpCapabilities.headerExtensions, TRUE, 1),
      encodings        |-> << >>,
      rtcp             |-> << >> ]

\* getReceivingFullRtpParameters, the codec loop from extended codec i on.
RECURSIVE recvFullCodecsFrom(_, _, _)
recvFullCodecsFrom(kind, capCodecs, i) ==
    IF i > Len(capCodecs) THEN << >>
    ELSE IF capCodecs[i].kind # kind
         THEN recvFullCodecsFrom(kind, capCodecs, i + 1)
    ELSE << paramCodecOf(capCodecs[i], capCodecs[i].recvPayloadType) >>
         \o (IF Truthy(capCodecs[i].recvRtxPayloadType)
             THEN << rtxParamCodecOf(capCodecs[i],
                                     capCodecs[i].recvRtxPayloadType,
                                     capCodecs[i].recvPayloadType) >>
             ELSE << >>)
         \o recvFullCodecsFrom(kind, capCodecs, i + 1)

\* exports.getReceivingFullRtpParameters = function(kind, extendedRtpCapabilities)
getReceivingFullRtpParameters(kind, extendedRtpCapabilities) ==
    [ mid              |-> null,
      codecs           |-> recvFullCodecsFrom(kind, extendedRtpCapabilities.codecs, 1),
      headerExtensions |->
          paramExtsFrom(kind, extendedRtpCapabilities.headerExtensions, FALSE, 1),
      encodings        |-> << >>,
      rtcp             |-> << >> ]

---------------------------------------------------------------------------
(* The inputs the functions of ortc.js are applied to.                     *)

MaxLocalCodecs == 3

MaxRemoteCodecs == 2

MaxHeaderExtensions == 2

MaxExtendedCodecs == 3

\* All sequences over S of length at most n.
RECURSIVE SeqsUpTo(_, _)
SeqsUpTo(S, n) ==
    IF n = 0 THEN { << >> }
    ELSE LET shorter == SeqsUpTo(S, n - 1)
         IN  shorter \cup { Append(s, x) : s \in { t \in shorter : Len(t) = n - 1 },
                                           x \in S }

Codec(name, mimeType, kind, clockRate, payloadType, channels, parameters, fb) ==
    [ name                 |-> name,
      mimeType             |-> mimeType,
      kind                 |-> kind,
      clockRate            |-> clockRate,
      preferredPayloadType |-> payloadType,
      channels             |-> channels,
      rtcpFeedback         |-> fb,
      parameters           |-> parameters ]

Fb(type, parameter) == [ type |-> type, parameter |-> parameter ]

Apt(payloadType) == [ NoParameters EXCEPT !["apt"] = payloadType ]

\* Codec pairs for matchCapCodecs: every combination of mime type (in both
\* letter cases), clock rate, channels (unset, 1, 2), packetization-mode
\* (absent, 0, 1) and of the fields the match does not read.
MatchCodecPool ==
    { Codec("x", mimeType,
            IF toLowerCase(mimeType) = "audio/opus" THEN "audio" ELSE "video",
            clockRate, other[1], channels,
            [ NoParameters EXCEPT !["packetization-mode"] = mode,
                                  !["profile-level-id"] = other[2] ],
            << >>) :
        mimeType  \in { "audio/opus", "audio/OPUS", "video/H264", "video/h264" },
        clockRate \in { 48000, 90000 },
        channels  \in { undefined, 1, 2 },
        mode      \in { undefined, 0, 1 },
        other     \in { << 100, undefined >>, << 101, 42 >> } }

LocalCodecPool ==
    { Codec("opus", "audio/opus", "audio", 48000, 100, 2, NoParameters,
            << Fb("nack", ""), Fb("ccm", "fir") >>),
      Codec("OPUS", "audio/OPUS", "audio", 48000, 101, 2, NoParameters, << >>),
      Codec("VP8", "video/VP8", "video", 90000, 96, undefined, NoParameters,
            << Fb("nack", "pli"), Fb("nack", "") >>),
      Codec("rtx", "video/rtx", "video", 90000, 97, undefined, Apt(96), << >>),
      Codec("rtx", "audio/rtx", "audio", 48000, 0, undefined, Apt(100), << >>) }

RemoteCodecPool ==
    { Codec("opus", "audio/opus", "audio", 48000, 111, 2, NoParameters,
            << Fb("ccm", "fir"), Fb("transport-cc", "") >>),
      Codec("VP8", "video/VP8", "video", 90000, 101, undefined, NoParameters,
            << Fb("nack", ""), Fb("nack", "pli") >>),
      Codec("rtx", "video/rtx", "video", 90000, 102, undefined, Apt(101), << >>),
      Codec("rtx", "audio/rtx", "audio", 48000, 112, undefined, Apt(111), << >>),
      Codec("H264", "video/H264", "video", 90000, 103, undefined,
            [ NoParameters EXCEPT !["packetization-mode"] = 1 ], << >>) }

Ext(kind, uri, preferredId) ==
    [ kind |-> kind, uri |-> uri, preferredId |-> preferredId ]

LocalExtPool ==
    { Ext("audio", "urn:ietf:params:rtp-hdrext:ssrc-audio-level", 1),
      Ext("video", "urn:ietf:params:rtp-hdrext:toffset", 2),
      Ext("", "http://www.webrtc.org/experiments/rtp-hdrext/abs-send-time", 3),
      Ext("video", "urn:ietf:params:rtp-hdrext:ssrc-audio-level", 4) }

RemoteExtPool ==
    { Ext("audio", "urn:ietf:params:rtp-hdrext:ssrc-audio-level", 10),
      Ext("video", "http://www.webrtc.org/experiments/rtp-hdrext/abs-send-time", 11),
      Ext("", "urn:ietf:params:rtp-hdrext:toffset", 12),
      Ext("video", "urn:ietf:params:rtp-hdrext:toffset", 13) }

Caps(codecs, headerExtensions) ==
    [ codecs           |-> codecs,
      headerExtensions |-> headerExtensions,
      fecMechanisms    |-> << >> ]

\* Capability sets: every codec list with no header extension, and every
\* header-extension list with no codec.
LocalCapsPool ==
    { Caps(c, << >>) : c \in SeqsUpTo(LocalCodecPool, MaxLocalCodecs) }
    \cup { Caps(<< >>, e) : e \in SeqsUpTo(LocalExtPool, MaxHeaderExtensions) }

RemoteCapsPool ==
    { Caps(c, << >>) : c \in SeqsUpTo(RemoteCodecPool, MaxRemoteCodecs) }
    \cup { Caps(<< >>, e) : e \in SeqsUpTo(RemoteExtPool, MaxHeaderExtensions) }

\* Extended codecs of both kinds whose retransmission payload types are
\* unset, 0 or a dynamic payload type.
ExtendedCodecPool ==
    { [ name               |-> IF kind = "audio" THEN "opus" ELSE "VP8",
        mimeType           |-> IF kind = "audio" THEN "audio/opus" ELSE "video/VP8",
        kind               |-> kind,
        clockRate          |-> IF kind = "audio" THEN 48000 ELSE 90000,
        sendPayloadType    |-> IF kind = "audio" THEN 100 ELSE 96,
        sendRtxPayloadType |-> rtx[1],
        recvPayloadType    |-> IF kind = "audio" THEN 111 ELSE 101,
        recvRtxPayloadType |-> rtx[2],
        channels           |-> IF kind = "audio" THEN 2 ELSE undefined,
        rtcpFeedback       |-> << Fb("nack", "") >>,
        parameters         |-> NoParameters ] :
        kind \in { "audio", "video" },
        rtx  \in { << null, null >>, << 0, 102 >>, << 97, 0 >> } }

ExtendedExts ==
    << [ kind |-> "audio", uri |-> "urn:ietf:params:rtp-hdrext:ssrc-audio-level",
         sendId |-> 1, recvId |-> 10 ],
       [ kind |-> "", uri |-> "urn:ietf:params:rtp-hdrext:toffset",
         sendId |-> 2, recvId |-> 12 ] >>

ExtendedPool ==
    { [ codecs           |-> c,
        headerExtensions |-> e,
        fecMechanisms    |-> << >> ] :
        c \in SeqsUpTo(ExtendedCodecPool, MaxExtendedCodecs),
        e \in { << >>, ExtendedExts } }

Kinds == { "audio", "video" }

\* Kind arguments: the two media kinds and one that is neither.
KindArgs == Kinds \cup { "application" }

---------------------------------------------------------------------------
(* The SDP extractor: extractRtpCapabilities and extractDtlsParameters     *)
(* read the object sdp-transform parsed from a session description.  A     *)
(* string-valued attribute that is absent (iceUfrag, setup, the role that  *)
(* no case assigns) is the empty string, an absent list (fmtp, rtcpFb,     *)
(* ext) the empty sequence, an absent fingerprint object `noFingerprint'.  *)

\* sdpTransform.parseFmtpConfig on the a=fmtp configs of the pools.
parseFmtpConfig(config) ==
    CASE config = "apt=96"               -> Apt(96)
      [] config = "packetization-mode=1" ->
             [ NoParameters EXCEPT !["packetization-mode"] = 1 ]
      [] OTHER                           -> NoParameters

\* codecsMap.get(payload): the position of the entry keyed by the payload
\* type, or 0 (the Map holds one entry per key).
RECURSIVE codecsMapGet(_, _, _)
codecsMapGet(codecsMap, payload, i) ==
    IF i > Len(codecsMap) THEN 0
    ELSE IF codecsMap[i].preferredPayloadType = payload THEN i
    ELSE codecsMapGet(codecsMap, payload, i + 1)

\* codecsMap.set(codec.preferredPayloadType, codec): a key already present
\* keeps its place in the insertion order and gets the new value.
codecsMapSet(codecsMap, codec) ==
    LET i == codecsMapGet(codecsMap, codec.preferredPayloadType, 1)
    IN  IF i = 0 THEN Append(codecsMap, codec)
        ELSE [ codecsMap EXCEPT ![i] = codec ]

\* The codec built from one a=rtpmap line; channels is deleted unless > 1.
rtpCodecOf(kind, rtp) ==
    Codec(rtp.codec, kind \o "/" \o rtp.codec, kind, rtp.rate, rtp.payload,
          IF rtp.encoding # undefined /\ rtp.encoding > 1
          THEN rtp.encoding ELSE undefined,
          NoParameters, << >>)

\* "Get codecs": for (const rtp of m.rtp), from line i on.
RECURSIVE getCodecs(_, _, _, _)
getCodecs(codecsMap, kind, rtp, i) ==
    IF i > Len(rtp) THEN codecsMap
    ELSE getCodecs(codecsMapSet(codecsMap, rtpCodecOf(kind, rtp[i])),
                   kind, rtp, i + 1)

\* "Get codec parameters": for (const fmtp of m.fmtp || []), from i on.
RECURSIVE getCodecParameters(_, _, _)
getCodecParameters(codecsMap, fmtp, i) ==
    IF i > Len(fmtp) THEN codecsMap
    ELSE LET c == codecsMapGet(codecsMap, fmtp[i].payload, 1)
         IN  getCodecParameters(
                 IF c = 0 THEN codecsMap
                 ELSE [ codecsMap EXCEPT
                          ![c].parameters = parseFmtpConfig(fmtp[i].config) ],
                 fmtp, i + 1)

\* "Get RTCP feedback for each codec": for (const fb of m.rtcpFb || []).
RECURSIVE getRtcpFeedback(_, _, _)
getRtcpFeedback(codecsMap, rtcpFb, i) ==
    IF i > Len(rtcpFb) THEN codecsMap
    ELSE LET c == codecsMapGet(codecsMap, rtcpFb[i].payload, 1)
         IN  getRtcpFeedback(
                 IF c = 0 THEN codecsMap
                 ELSE [ codecsMap EXCEPT
                          ![c].rtcpFeedback =
                              Append(@, Fb(rtcpFb[i].type, rtcpFb[i].subtype)) ],
                 rtcpFb, i + 1)

\* "Get RTP header extensions": for (const ext of m.ext || []).
getHeaderExtensions(kind, ext) ==
    [ i \in 1..Len(ext) |-> Ext(kind, ext[i].uri, ext[i].value) ]

\* The loop over sdpObj.media from section i on; st holds codecsMap,
\* headerExtensions, gotAudio and gotVideo.
RECURSIVE extractFrom(_, _, _)
extractFrom(media, st, i) ==
    IF i > Len(media) THEN st
    ELSE LET m    == media[i]
             kind == m.type
             skip == \/ kind \notin {"audio", "video"}
                     \/ kind = "audio" /\ st.gotAudio
                     \/ kind = "video" /\ st.gotVideo
         IN  IF skip THEN extractFrom(media, st, i + 1)
             ELSE extractFrom(media,
                    [ codecsMap        |->
                          getRtcpFeedback(
                              getCodecParameters(
                                  getCodecs(st.codecsMap, kind, m.rtp, 1),
                                  m.fmtp, 1),
                              m.rtcpFb, 1),
                      headerExtensions |->
                          st.headerExtensions \o getHeaderExtensions(kind, m.ext),
                      gotAudio         |-> st.gotAudio \/ kind = "audio",
                      gotVideo         |-> st.gotVideo \/ kind = "video" ],
                    i + 1)

\* export function extractRtpCapabilities(sdpObj)
extractRtpCapabilities(sdpObj) ==
    LET st == extractFrom(sdpObj.media,
                          [ codecsMap        |-> << >>,
                            headerExtensions |-> << >>,
                            gotAudio         |-> FALSE,
                            gotVideo         |-> FALSE ], 1)
    IN  Caps(st.codecsMap, st.headerExtensions)

\* An absent fingerprint object (media.fingerprint, sdpObj.fingerprint).
noFingerprint == [ isUndefined |-> TRUE ]

\* getFirstActiveMediaSection telling sections apart by the ICE
\* user-fragment alone.
RECURSIVE getFirstActiveMediaSection_anyPort(_, _)
getFirstActiveMediaSection_anyPort(media, i) ==
    IF i > Len(media) THEN 0
    ELSE IF media[i].iceUfrag # "" THEN i
    ELSE getFirstActiveMediaSection_anyPort(media, i + 1)

\* (sdpObj.media || []).find((m) => m.iceUfrag && m.port !== 0): the
\* position of the first such section, or 0 when find returns undefined.
RECURSIVE getFirstActiveMediaSection(_, _)
getFirstActiveMediaSection(media, i) ==
    IF i > Len(media) THEN 0
    ELSE IF media[i].iceUfrag # "" /\ media[i].port # 0 THEN i
    ELSE getFirstActiveMediaSection(media, i + 1)

\* switch (media.setup): the role, left unset when no case applies.
roleOf(setup) ==
    CASE setup = "active"  -> "client"
      [] setup = "passive" -> "server"
      [] setup = "actpass" -> "auto"
      [] OTHER             -> ""

\* export function extractDtlsParameters(sdpObj): reading a property of
\* the undefined media section, or of the undefined fingerprint, throws.
extractDtlsParameters(sdpObj) ==
    LET m == getFirstActiveMediaSection(sdpObj.media, 1)
    IN  IF m = 0 THEN [ threw |-> "TypeError" ]
        ELSE LET media       == sdpObj.media[m]
                 fingerprint == IF media.fingerprint # noFingerprint
                                THEN media.fingerprint
                                ELSE sdpObj.fingerprint
             IN  IF fingerprint = noFingerprint
                 THEN [ threw |-> "TypeError" ]
                 ELSE [ role         |-> roleOf(media.setup),
                        fingerprints |->
                            << [ algorithm |-> fingerprint.type,
                                 value     |-> fingerprint.hash ] >> ]

---------------------------------------------------------------------------
(* SpecOrtc: the functions of ortc.js applied to the pools.                *)

NoCall == [ fn |-> "none" ]

CallMatchCapCodecs ==
    /\ call = NoCall
    /\ UNCHANGED deviceVars
    /\ \E aCodec \in MatchCodecPool, bCodec \in MatchCodecPool :
           call' = [ fn     |-> "matchCapCodecs",
                     aCodec |-> aCodec,
                     bCodec |-> bCodec,
                     ret    |-> matchCapCodecs(aCodec, bCodec) ]

CallGetExtendedRtpCapabilities ==
    /\ call = NoCall
    /\ UNCHANGED deviceVars
    /\ \E localCaps \in LocalCapsPool, remoteCaps \in RemoteCapsPool :
           call' = [ fn         |-> "getExtendedRtpCapabilities",
                     localCaps  |-> localCaps,
                     remoteCaps |-> remoteCaps,
                     ret        |-> getExtendedRtpCapabilities(localCaps, remoteCaps) ]

CallGetRecvRtpCapabilities ==
    /\ call = NoCall
    /\ UNCHANGED deviceVars
    /\ \E extendedRtpCapabilities \in ExtendedPool :
           call' = [ fn  |-> "getRecvRtpCapabilities",
                     extendedRtpCapabilities |-> extendedRtpCapabilities,
                     ret |-> getRecvRtpCapabilities(extendedRtpCapabilities) ]

CallCanSend ==
    /\ call = NoCall
    /\ UNCHANGED deviceVars
    /\ \E kind \in KindArgs, extendedRtpCapabilities \in ExtendedPool :
           call' = [ fn   |-> "canSend",
                     kind |-> kind,
                     extendedRtpCapabilities |-> extendedRtpCapabilities,
                     ret  |-> canSend(kind, extendedRtpCapabilities) ]

CallGetSendingRtpParameters ==
    /\ call = NoCall
    /\ UNCHANGED deviceVars
    /\ \E kind \in KindArgs, extendedRtpCapabilities \in ExtendedPool :
           call' = [ fn   |-> "getSendingRtpParameters",
                     kind |-> kind,
                     extendedRtpCapabilities |-> extendedRtpCapabilities,
                     ret  |-> getSendingRtpParameters(kind, extendedRtpCapabilities) ]

CallGetReceivingFullRtpParameters ==
    /\ call = NoCall
    /\ UNCHANGED deviceVars
    /\ \E kind \in KindArgs, extendedRtpCapabilities \in ExtendedPool :
           call' = [ fn   |-> "getReceivingFullRtpParameters",
                     kind |-> kind,
                     extendedRtpCapabilities |-> extendedRtpCapabilities,
                     ret  |-> getReceivingFullRtpParameters(kind, extendedRtpCapabilities) ]

---------------------------------------------------------------------------
(* lib/Device.js                                                           *)

MaxLoadCalls == 3

\* The object-valued fields of a Device before load(): null.
nullObject == [ isNull |-> TRUE ]

\* Values passed as routerRtpCapabilities, by what `typeof' and property
\* reads make of them: a missing argument, a string, null, an array (an
\* object with neither codecs nor headerExtensions) and capability sets.
RouterCapsPool ==
    { Caps(<< Codec("opus", "audio/opus", "audio", 48000, 111, 2, NoParameters,
                    << Fb("ccm", "fir") >>),
              Codec("VP8", "video/VP8", "video", 90000, 101, undefined,
                    NoParameters, << Fb("nack", "") >>),
              Codec("rtx", "video/rtx", "video", 90000, 102, undefined,
                    Apt(101), << >>) >>,
           << Ext("", "urn:ietf:params:rtp-hdrext:toffset", 12) >>),
      Caps(<< Codec("VP8", "video/VP8", "video", 90000, 101, undefined,
                    NoParameters, << >>) >>,
           << >>) }

RouterArgs ==
    { [ t |-> "undefined", caps |-> Caps(<< >>, << >>) ],
      [ t |-> "string",    caps |-> Caps(<< >>, << >>) ],
      [ t |-> "null",      caps |-> Caps(<< >>, << >>) ],
      [ t |-> "array",     caps |-> Caps(<< >>, << >>) ] }
    \cup { [ t |-> "object", caps |-> c ] : c \in RouterCapsPool }

\* What Handler.getNativeRtpCapabilities() may resolve with.
NativeCapsPool ==
    { Caps(<< Codec("opus", "audio/opus", "audio", 48000, 100, 2, NoParameters,
                    << Fb("ccm", "fir") >>),
              Codec("VP8", "video/VP8", "video", 90000, 96, undefined,
                    NoParameters, << Fb("nack", "") >>),
              Codec("rtx", "video/rtx", "video", 90000, 97, undefined,
                    Apt(96), << >>) >>,
           << Ext("video", "urn:ietf:params:rtp-hdrext:toffset", 2) >>),
      Caps(<< Codec("opus", "audio/opus", "audio", 48000, 100, 2, NoParameters,
                    << >>) >>,
           << >>) }

\* The typeof operator on the argument values above.
typeof(v) ==
    CASE v.t = "undefined" -> "undefined"
      [] v.t = "string"    -> "string"
      [] OTHER             -> "object"

\* Reading remoteCaps.codecs throws a TypeError when remoteCaps is null.
builderThrows(routerRtpCapabilities) == routerRtpCapabilities.t = "null"

\* The state a Device caches at load().
cached ==
    << _loaded, _extendedRtpCapabilities, _recvRtpCapabilities,
       _canProduceByKind >>

\* constructor({ Handler } = {})
Init ==
    /\ _loaded = FALSE
    /\ _extendedRtpCapabilities = nullObject
    /\ _recvRtpCapabilities = nullObject
    /\ _canProduceByKind = [ k \in Kinds |-> FALSE ]
    /\ pending = {}
    /\ loadCalls = 0
    /\ builderCalls = 0
    /\ loadedWith = nullObject
    /\ result = [ op |-> "constructor", status |-> "ok" ]
    /\ call = NoCall

\* What a load() call has come to: its number, its argument and whether it
\* threw (and what), is suspended at the await ("awaiting") or resolved.
LoadResult(id, routerRtpCapabilities, status) ==
    [ op |-> "load", id |-> id, arg |-> routerRtpCapabilities.t,
      status |-> status ]

\* load() with the `already loaded' test left out: a mutant of Load.
Load_noLoadedGuard(routerRtpCapabilities) ==
    /\ loadCalls < MaxLoadCalls
    /\ loadCalls' = loadCalls + 1
    /\ IF typeof(routerRtpCapabilities) # "object"
       THEN /\ result' = LoadResult(loadCalls', routerRtpCapabilities, "TypeError")
            /\ UNCHANGED pending
       ELSE /\ result' = LoadResult(loadCalls', routerRtpCapabilities, "awaiting")
            /\ pending' = pending \cup
                   { [ id |-> loadCalls',
                       routerRtpCapabilities |-> routerRtpCapabilities ] }
    /\ UNCHANGED << cached, builderCalls, loadedWith, call >>

\* load() with the typeof test left out: a mutant of Load.
Load_noTypeCheck(routerRtpCapabilities) ==
    /\ loadCalls < MaxLoadCalls
    /\ loadCalls' = loadCalls + 1
    /\ IF _loaded
       THEN /\ result' = LoadResult(loadCalls', routerRtpCapabilities,
                                    "InvalidStateError")
            /\ UNCHANGED pending
       ELSE /\ result' = LoadResult(loadCalls', routerRtpCapabilities, "awaiting")
            /\ pending' = pending \cup
                   { [ id |-> loadCalls',
                       routerRtpCapabilities |-> routerRtpCapabilities ] }
    /\ UNCHANGED << cached, builderCalls, loadedWith, call >>

\* async load({ routerRtpCapabilities } = {}), up to its await: the two
\* guards, then the call is suspended on getNativeRtpCapabilities().
Load(routerRtpCapabilities) ==
    /\ loadCalls < MaxLoadCalls
    /\ loadCalls' = loadCalls + 1
    /\ IF _loaded
       THEN /\ result' = LoadResult(loadCalls', routerRtpCapabilities,
                                    "InvalidStateError")
            /\ UNCHANGED pending
       ELSE IF typeof(routerRtpCapabilities) # "object"
       THEN /\ result' = LoadResult(loadCalls', routerRtpCapabilities, "TypeError")
            /\ UNCHANGED pending
       ELSE /\ result' = LoadResult(loadCalls', routerRtpCapabilities, "awaiting")
            /\ pending' = pending \cup
                   { [ id |-> loadCalls',
                       routerRtpCapabilities |-> routerRtpCapabilities ] }
    /\ UNCHANGED << cached, builderCalls, loadedWith, call >>

\* The rest of load() with the audio flag computed for 'video': a mutant
\* of LoadResume.
LoadResume_swappedFlag(id, nativeRtpCapabilities) ==
    \E p \in pending :
    /\ p.id = id
    /\ pending' = pending \ { p }
    /\ builderCalls' = builderCalls + 1
    /\ ~builderThrows(p.routerRtpCapabilities)
    /\ LET extended == getExtendedRtpCapabilities(
                           nativeRtpCapabilities, p.routerRtpCapabilities.caps)
       IN  /\ _extendedRtpCapabilities' = extended
           /\ _canProduceByKind' =
                  [ k \in Kinds |-> canSend("video", extended) ]
           /\ _recvRtpCapabilities' = getRecvRtpCapabilities(extended)
           /\ _loaded' = TRUE
           /\ loadedWith' =
                  [ nativeRtpCapabilities |-> nativeRtpCapabilities,
                    routerRtpCapabilities |-> p.routerRtpCapabilities ]
           /\ result' = LoadResult(p.id, p.routerRtpCapabilities, "ok")
    /\ UNCHANGED << loadCalls, call >>

\* The rest of load() where a builder that throws unloads the device: a
\* mutant of LoadResume.
LoadResume_unloadOnThrow(id, nativeRtpCapabilities) ==
    \E p \in pending :
    /\ p.id = id
    /\ pending' = pending \ { p }
    /\ builderCalls' = builderCalls + 1
    /\ IF builderThrows(p.routerRtpCapabilities)
       THEN /\ result' = LoadResult(p.id, p.routerRtpCapabilities, "TypeError")
            /\ _loaded' = FALSE
            /\ _extendedRtpCapabilities' = nullObject
            /\ _recvRtpCapabilities' = nullObject
            /\ _canProduceByKind' = [ k \in Kinds |-> FALSE ]
            /\ UNCHANGED loadedWith
       ELSE LET extended == getExtendedRtpCapabilities(
                                nativeRtpCapabilities,
                                p.routerRtpCapabilities.caps)
            IN  /\ _extendedRtpCapabilities' = extended
                /\ _canProduceByKind' =
                       [ k \in Kinds |-> canSend(k, extended) ]
                /\ _recvRtpCapabilities' = getRecvRtpCapabilities(extended)
                /\ _loaded' = TRUE
                /\ loadedWith' =
                       [ nativeRtpCapabilities |-> nativeRtpCapabilities,
                         routerRtpCapabilities |-> p.routerRtpCapabilities ]
                /\ result' = LoadResult(p.id, p.routerRtpCapabilities, "ok")
    /\ UNCHANGED << loadCalls, call >>

\* load() from the await on, once getNativeRtpCapabilities() has resolved:
\* the builder runs, then the flags, the receive capabilities and _loaded
\* are assigned in one synchronous run.  A builder that throws (a null
\* routerRtpCapabilities) ends the call before any assignment.
LoadResume(id, nativeRtpCapabilities) ==
    \E p \in pending :
    /\ p.id = id
    /\ pending' = pending \ { p }
    /\ builderCalls' = builderCalls + 1
    /\ IF builderThrows(p.routerRtpCapabilities)
       THEN /\ result' = LoadResult(p.id, p.routerRtpCapabilities, "TypeError")
            /\ UNCHANGED << cached, loadedWith >>
       ELSE LET extended == getExtendedRtpCapabilities(
                                nativeRtpCapabilities,
                                p.routerRtpCapabilities.caps)
            IN  /\ _extendedRtpCapabilities' = extended
                /\ _canProduceByKind' =
                       [ k \in Kinds |-> canSend(k, extended) ]
                /\ _recvRtpCapabilities' = getRecvRtpCapabilities(extended)
                /\ _loaded' = TRUE
                /\ loadedWith' =
                       [ nativeRtpCapabilities |-> nativeRtpCapabilities,
                         routerRtpCapabilities |-> p.routerRtpCapabilities ]
                /\ result' = LoadResult(p.id, p.routerRtpCapabilities, "ok")
    /\ UNCHANGED << loadCalls, call >>

\* load() from the await on, when getNativeRtpCapabilities() rejects: the
\* call ends with the handler's error and nothing is assigned.
LoadRejected(id) ==
    \E p \in pending :
    /\ p.id = id
    /\ pending' = pending \ { p }
    /\ result' = LoadResult(p.id, p.routerRtpCapabilities, "Error")
    /\ UNCHANGED << cached, loadCalls, builderCalls, loadedWith, call >>

\* get rtpCapabilities()
GetRtpCapabilities ==
    /\ result' = IF ~_loaded
                 THEN [ op |-> "rtpCapabilities", status |-> "InvalidStateError" ]
                 ELSE [ op |-> "rtpCapabilities", status |-> "ok",
                        value |-> _recvRtpCapabilities ]
    /\ UNCHANGED << cached, pending, loadCalls, builderCalls, loadedWith, call >>

\* canProduce(kind) with the `not loaded' test left out: a mutant of
\* CanProduce.
CanProduce_noLoadedGuard(kind) ==
    /\ result' = IF kind # "audio" /\ kind # "video"
                 THEN [ op |-> "canProduce", kind |-> kind,
                        status |-> "TypeError" ]
                 ELSE [ op |-> "canProduce", kind |-> kind, status |-> "ok",
                        value |-> _canProduceByKind[kind] ]
    /\ UNCHANGED << cached, pending, loadCalls, builderCalls, loadedWith, call >>

\* canProduce(kind)
CanProduce(kind) ==
    /\ result' = IF ~_loaded
                 THEN [ op |-> "canProduce", kind |-> kind,
                        status |-> "InvalidStateError" ]
                 ELSE IF kind # "audio" /\ kind # "video"
                 THEN [ op |-> "canProduce", kind |-> kind,
                        status |-> "TypeError" ]
                 ELSE [ op |-> "canProduce", kind |-> kind, status |-> "ok",
                        value |-> _canProduceByKind[kind] ]
    /\ UNCHANGED << cached, pending, loadCalls, builderCalls, loadedWith, call >>

\* Calls of createSendTransport/createRecvTransport: the direction,
\* transportRemoteParameters (missing, without id, with one) and appData
\* (an object or a string).
TransportArgs ==
    { << "send", [ t |-> "undefined", id |-> "" ],         [ t |-> "object" ] >>,
      << "recv", [ t |-> "object", id |-> "" ],            [ t |-> "object" ] >>,
      << "send", [ t |-> "object", id |-> "transport-1" ], [ t |-> "string" ] >>,
      << "send", [ t |-> "object", id |-> "transport-1" ], [ t |-> "object" ] >>,
      << "recv", [ t |-> "object", id |-> "transport-1" ], [ t |-> "object" ] >> }

\* createSendTransport(...) / createRecvTransport(...) -> _createTransport:
\* the Transport is constructed with the extended capabilities and the
\* send flags of the device.
CreateTransport(direction, transportRemoteParameters, appData) ==
    /\ result' =
           IF ~_loaded
           THEN [ op |-> "createTransport", status |-> "InvalidStateError" ]
           ELSE IF typeof(transportRemoteParameters) # "object"
           THEN [ op |-> "createTransport", status |-> "TypeError" ]
           ELSE IF transportRemoteParameters.id = ""
           THEN [ op |-> "createTransport", status |-> "TypeError" ]
           ELSE IF typeof(appData) # "object"
           THEN [ op |-> "createTransport", status |-> "TypeError" ]
           ELSE [ op |-> "createTransport", status |-> "ok",
                  value |-> [ direction |-> direction,
                              id |-> transportRemoteParameters.id,
                              extendedRtpCapabilities |-> _extendedRtpCapabilities,
                              canProduceByKind |-> _canProduceByKind ] ]
    /\ UNCHANGED << cached, pending, loadCalls, builderCalls, loadedWith, call >>

Next ==
    \/ \E routerRtpCapabilities \in RouterArgs : Load(routerRtpCapabilities)
    \/ \E id \in 1..MaxLoadCalls, nativeRtpCapabilities \in NativeCapsPool :
           LoadResume(id, nativeRtpCapabilities)
    \/ \E id \in 1..MaxLoadCalls : LoadRejected(id)
    \/ GetRtpCapabilities
    \/ \E kind \in KindArgs : CanProduce(kind)
    \/ \E args \in TransportArgs : CreateTransport(args[1], args[2], args[3])

Spec == Init /\ [][Next]_vars

\* One function application per behaviour: the functions keep no state.
NextOrtc ==
    \/ CallMatchCapCodecs
    \/ CallGetExtendedRtpCapabilities
    \/ CallGetRecvRtpCapabilities
    \/ CallCanSend
    \/ CallGetSendingRtpParameters
    \/ CallGetReceivingFullRtpParameters

SpecOrtc == Init /\ [][NextOrtc]_vars

---------------------------------------------------------------------------
(* SpecSdp: the SDP extractor applied to parsed session descriptions of    *)
(* at most MaxMediaSections media sections.                                *)

MaxMediaSections == 3

Rtp(payload, codec, rate, encoding) ==
    [ payload |-> payload, codec |-> codec, rate |-> rate,
      encoding |-> encoding ]

\* The a=rtpmap lists of a section: payload type 111 is advertised by an
\* audio list (opus) and by a video list (H264), 96 likewise (G722, VP8).
AudioRtpPool ==
    { << Rtp(111, "opus", 48000, 2) >>,
      << Rtp(111, "opus", 48000, 2), Rtp(0, "PCMU", 8000, 1) >>,
      << Rtp(96, "G722", 8000, undefined) >> }

VideoRtpPool ==
    { << Rtp(96, "VP8", 90000, undefined) >>,
      << Rtp(96, "VP8", 90000, undefined), Rtp(97, "rtx", 90000, undefined) >>,
      << Rtp(111, "H264", 90000, undefined) >> }

MediaSection(type, rtp, fmtp, rtcpFb, ext) ==
    [ type |-> type, rtp |-> rtp, fmtp |-> fmtp, rtcpFb |-> rtcpFb,
      ext |-> ext ]

\* Media sections: audio and video ones with and without a=fmtp, a=rtcp-fb
\* and a=extmap lines, a data section and a text section with a codec line.
MediaSectionPool ==
    { MediaSection("audio", rtp, << >>, << >>, << >>) : rtp \in AudioRtpPool }
    \cup
    { MediaSection("audio", rtp,
                   << >>,
                   << [ payload |-> 111, type |-> "transport-cc", subtype |-> "" ] >>,
                   << [ value |-> 1,
                        uri |-> "urn:ietf:params:rtp-hdrext:ssrc-audio-level" ] >>)
        : rtp \in AudioRtpPool }
    \cup
    { MediaSection("video", rtp, << >>, << >>, << >>) : rtp \in VideoRtpPool }
    \cup
    { MediaSection("video", rtp,
                   << [ payload |-> 97, config |-> "apt=96" ],
                      [ payload |-> 111, config |-> "packetization-mode=1" ] >>,
                   << [ payload |-> 96, type |-> "nack", subtype |-> "pli" ] >>,
                   << [ value |-> 2,
                        uri |-> "urn:ietf:params:rtp-hdrext:toffset" ] >>)
        : rtp \in VideoRtpPool }
    \cup
    { MediaSection("application", << >>, << >>, << >>, << >>),
      MediaSection("text", << Rtp(98, "t140", 1000, undefined) >>, << >>, << >>,
                   << [ value |-> 3,
                        uri |-> "urn:ietf:params:rtp-hdrext:sdes:mid" ] >>) }

Fingerprint(type, hash) == [ type |-> type, hash |-> hash ]

MediaFingerprint == Fingerprint("sha-256", "AA:BB")

SessionFingerprint == Fingerprint("sha-512", "CC:DD")

DtlsSection(port, iceUfrag, setup, fingerprint) ==
    [ port |-> port, iceUfrag |-> iceUfrag, setup |-> setup,
      fingerprint |-> fingerprint ]

\* Sections for extractDtlsParameters: rejected ones (port 0, or no
\* a=ice-ufrag) and active ones with every setup value and with or without
\* a fingerprint of their own.
DtlsSectionPool ==
    { DtlsSection(0, "F7gI", "active", MediaFingerprint),
      DtlsSection(9, "", "passive", MediaFingerprint),
      DtlsSection(0, "", "actpass", noFingerprint) }
    \cup
    { DtlsSection(9, "F7gI", setup, fingerprint) :
        setup \in {"", "active", "passive", "actpass", "holdconn"},
        fingerprint \in {noFingerprint, MediaFingerprint} }

CallExtractRtpCapabilities ==
    /\ call = NoCall
    /\ UNCHANGED deviceVars
    /\ \E media \in SeqsUpTo(MediaSectionPool, MaxMediaSections) :
           call' = [ fn     |-> "extractRtpCapabilities",
                     sdpObj |-> [ media |-> media ],
                     ret    |-> extractRtpCapabilities([ media |-> media ]) ]

CallExtractDtlsParameters ==
    /\ call = NoCall
    /\ UNCHANGED deviceVars
    /\ \E media \in SeqsUpTo(DtlsSectionPool, MaxMediaSections),
          fingerprint \in {noFingerprint, SessionFingerprint} :
           LET sdpObj == [ media |-> media, fingerprint |-> fingerprint ]
           IN  call' = [ fn     |-> "extractDtlsParameters",
                         sdpObj |-> sdpObj,
                         ret    |-> extractDtlsParameters(sdpObj) ]

NextSdp ==
    \/ CallExtractRtpCapabilities
    \/ CallExtractDtlsParameters

SpecSdp == Init /\ [][NextSdp]_vars

---------------------------------------------------------------------------
(* Properties of the Device (checked under Spec).                          *)

\* The typeof of the argument a load() result reports.
typeofArg(r) == typeof([ t |-> r.arg ])

QueryOps == { "rtpCapabilities", "canProduce", "createTransport" }

\* C1: Device state guard.  A load() call made while the device is loaded
\* signals InvalidStateError, and rtpCapabilities, canProduce(kind) and
\* transport creation made while the device is not loaded (never loaded, or
\* a load still suspended) signal InvalidStateError; either way _loaded, the
\* extended set, the receive capabilities and the send flags are unchanged.
C1_StateGuard ==
    [][ /\ (loadCalls' > loadCalls /\ _loaded) =>
               /\ result'.op = "load"
               /\ result'.status = "InvalidStateError"
               /\ cached' = cached
        /\ (result'.op \in QueryOps /\ ~_loaded) =>
               /\ result'.status = "InvalidStateError"
               /\ cached' = cached ]_vars

\* A query is refused while a load is still suspended at its await.
C1_Witness ==
    /\ ~_loaded
    /\ pending # {}
    /\ result.op = "canProduce"
    /\ result.status = "InvalidStateError"

\* C2 as claimed: the unloaded-state guard lets at most one load() call
\* through to the engine, whatever the interleaving: of the calls made with
\* a capability set, at most one is ever suspended at the await or has run
\* the builder.
C2_AtMostOneLoadPastGuard ==
    Cardinality({ p \in pending : p.routerRtpCapabilities.t = "object" })
        + builderCalls <= 1

\* C2 as amended: the guard only refuses load() calls made while the device
\* is loaded (they signal InvalidStateError, are not suspended and never run
\* the builder); a call made while the device is unloaded with an object
\* argument passes the guard even when another load() is suspended; and the
\* builder runs once for every suspended call that is resumed, never
\* otherwise.
C2_GuardRefusesOnlyWhenLoaded ==
    [][ /\ (loadCalls' > loadCalls /\ _loaded) =>
               /\ result'.status = "InvalidStateError"
               /\ pending' = pending
               /\ builderCalls' = builderCalls
        /\ (loadCalls' > loadCalls /\ ~_loaded
                /\ typeofArg(result') = "object") =>
               /\ result'.status = "awaiting"
               /\ Cardinality(pending') = Cardinality(pending) + 1
               /\ builderCalls' = builderCalls
        /\ (builderCalls' # builderCalls) =>
               /\ builderCalls' = builderCalls + 1
               /\ \E p \in pending : pending' = pending \ { p } ]_vars

\* Two overlapping loads have both run the builder, and a third load(),
\* made once the device is loaded, is refused.
C2_Witness ==
    /\ _loaded
    /\ builderCalls = 2
    /\ result.op = "load"
    /\ result.id = 3
    /\ result.status = "InvalidStateError"

\* C3 as claimed: once loaded, the device stays loaded and the extended set,
\* the receive capabilities and the send flags never change, whatever is
\* called or completes afterwards.
C3_ImmutableOnceLoaded ==
    [][ _loaded => (_loaded' /\ cached' = cached) ]_vars

\* C3 as amended: once loaded, the device stays loaded; no call made after
\* that is suspended at the await or changes the cached state; the cached
\* state changes only when a load() that was suspended before the device
\* became loaded is resumed and succeeds.
C3_OneWayLifecycle ==
    [][ _loaded =>
            /\ _loaded'
            /\ pending' \subseteq pending
            /\ (cached' # cached) =>
                   /\ \E p \in pending :
                          /\ pending' = pending \ { p }
                          /\ result' = LoadResult(p.id, p.routerRtpCapabilities, "ok")
                   /\ builderCalls' = builderCalls + 1 ]_vars

\* On a loaded device with a load() still suspended from before, a new
\* load() has been refused.
C3_Witness ==
    /\ _loaded
    /\ pending # {}
    /\ result.op = "load"
    /\ result.status = "InvalidStateError"

\* C4: while the device is loaded, the stored extended set is
\* getExtendedRtpCapabilities(native capabilities, routerRtpCapabilities of
\* the load that succeeded), rtpCapabilities returns getRecvRtpCapabilities
\* of it and canProduce(kind), kind audio or video, returns canSend(kind, it).
C4_LoadedViews ==
    _loaded =>
        /\ _extendedRtpCapabilities =
               getExtendedRtpCapabilities(
                   loadedWith.nativeRtpCapabilities,
                   loadedWith.routerRtpCapabilities.caps)
        /\ _recvRtpCapabilities =
               getRecvRtpCapabilities(_extendedRtpCapabilities)
        /\ \A k \in Kinds :
               _canProduceByKind[k] = canSend(k, _extendedRtpCapabilities)
        /\ (result.op = "rtpCapabilities") =>
               /\ result.status = "ok"
               /\ result.value = getRecvRtpCapabilities(_extendedRtpCapabilities)
        /\ (result.op = "canProduce" /\ result.kind \in Kinds) =>
               /\ result.status = "ok"
               /\ result.value = canSend(result.kind, _extendedRtpCapabilities)

\* canProduce('video') answers true on a device that cannot produce audio.
C4_Witness ==
    /\ _loaded
    /\ result.op = "canProduce"
    /\ result.kind = "video"
    /\ result.status = "ok"
    /\ result.value = TRUE
    /\ ~canSend("audio", _extendedRtpCapabilities)

---------------------------------------------------------------------------
(* Properties of the functions of ortc.js (checked under SpecOrtc).        *)

\* channels with an unset value counting as 1.
ChannelsOr1(codec) ==
    IF codec.channels = undefined THEN 1 ELSE codec.channels

\* The packetization-mode parameter with an absent value counting as 0.
PacketizationModeOr0(codec) ==
    IF codec.parameters["packetization-mode"] = undefined
    THEN 0 ELSE codec.parameters["packetization-mode"]

\* C6: matchCodecs(local, remote) is true iff the mime types are equal
\* ignoring case, the clock rates are equal, the channels are equal with an
\* unset value counting as 1 and, for video/h264 only, the
\* packetization-mode parameters are equal with an absent one counting as 0.
C6_MatchCodecs ==
    (call.fn = "matchCapCodecs") =>
        (call.ret <=>
            /\ toLowerCase(call.aCodec.mimeType) = toLowerCase(call.bCodec.mimeType)
            /\ call.aCodec.clockRate = call.bCodec.clockRate
            /\ ChannelsOr1(call.aCodec) = ChannelsOr1(call.bCodec)
            /\ (toLowerCase(call.aCodec.mimeType) = "video/h264") =>
                   PacketizationModeOr0(call.aCodec)
                       = PacketizationModeOr0(call.bCodec))

\* The local codecs (their indices) matching a remote codec.
MatchingLocal(localCodecs, remoteCodec) ==
    { j \in 1..Len(localCodecs) : matchCapCodecs(localCodecs[j], remoteCodec) }

\* The remote codecs that are not named "rtx" and have a matching local
\* codec, in the remote's order.
NegotiableRemote(localCodecs, remoteCodecs) ==
    SelectSeq(remoteCodecs,
              LAMBDA r : r.name # "rtx" /\ MatchingLocal(localCodecs, r) # {})

\* C7: the codecs of getExtendedRtpCapabilities(local, remote) are, one for
\* one and in the remote's order, the remote codecs not named "rtx" that
\* have a matching local codec; each has the remote codec's payload type as
\* recvPayloadType and the payload type of the first matching local codec
\* as sendPayloadType.
C7_ExtendedCodecs ==
    (call.fn = "getExtendedRtpCapabilities") =>
        LET localCodecs == call.localCaps.codecs
            kept == NegotiableRemote(localCodecs, call.remoteCaps.codecs)
        IN  /\ Len(call.ret.codecs) = Len(kept)
            /\ \A i \in 1..Len(kept) :
                   LET ms == MatchingLocal(localCodecs, kept[i])
                       first == CHOOSE j \in ms : \A k \in ms : j <= k
                   IN  /\ call.ret.codecs[i].recvPayloadType
                              = kept[i].preferredPayloadType
                       /\ call.ret.codecs[i].sendPayloadType
                              = localCodecs[first].preferredPayloadType

\* Two remote codecs are kept, in the remote's order, and one of them has
\* two matching local codecs, the first of which is not the first local
\* codec.
C7_Witness ==
    /\ call.fn = "getExtendedRtpCapabilities"
    /\ Len(call.ret.codecs) = 2
    /\ \E i \in 1..Len(call.remoteCaps.codecs) :
           /\ Cardinality(MatchingLocal(call.localCaps.codecs,
                                        call.remoteCaps.codecs[i])) = 2
           /\ 1 \notin MatchingLocal(call.localCaps.codecs,
                                     call.remoteCaps.codecs[i])

\* The rtx codecs (their indices) of a codec list whose apt is payloadType.
RtxFor(codecs, payloadType) ==
    { j \in 1..Len(codecs) :
        codecs[j].name = "rtx" /\ codecs[j].parameters["apt"] = payloadType }

\* C8: for every extended codec, sendRtxPayloadType and recvRtxPayloadType
\* are both set or both unset; they are set iff the local set has an rtx
\* codec whose apt is the codec's sendPayloadType and the remote set has an
\* rtx codec whose apt is its recvPayloadType, and then they are the payload
\* types of such a local and such a remote rtx codec.
C8_RtxPairing ==
    (call.fn = "getExtendedRtpCapabilities") =>
        \A i \in 1..Len(call.ret.codecs) :
            LET c == call.ret.codecs[i]
                l == RtxFor(call.localCaps.codecs, c.sendPayloadType)
                r == RtxFor(call.remoteCaps.codecs, c.recvPayloadType)
            IN  /\ (c.sendRtxPayloadType = null) <=> (c.recvRtxPayloadType = null)
                /\ (c.sendRtxPayloadType # null) <=> (l # {} /\ r # {})
                /\ (l # {} /\ r # {}) =>
                       /\ \E j \in l :
                              c.sendRtxPayloadType
                                  = call.localCaps.codecs[j].preferredPayloadType
                       /\ \E j \in r :
                              c.recvRtxPayloadType
                                  = call.remoteCaps.codecs[j].preferredPayloadType

\* One extended codec is paired with the rtx codecs of both sides while the
\* local set also holds an rtx codec that no remote rtx codec answers.
C8_Witness ==
    /\ call.fn = "getExtendedRtpCapabilities"
    /\ Len(call.ret.codecs) = 1
    /\ call.ret.codecs[1].sendRtxPayloadType = 97
    /\ call.ret.codecs[1].recvRtxPayloadType = 102
    /\ Cardinality({ j \in 1..Len(call.localCaps.codecs) :
                       call.localCaps.codecs[j].name = "rtx" }) = 2

\* The first extended codec (its index) of a kind, or 0.
FirstOfKind(kind, capCodecs) ==
    IF \E i \in 1..Len(capCodecs) : capCodecs[i].kind = kind
    THEN CHOOSE i \in 1..Len(capCodecs) :
             /\ capCodecs[i].kind = kind
             /\ \A j \in 1..(i - 1) : capCodecs[j].kind # kind
    ELSE 0

\* C9: getSendingRtpParameters(kind) emits codecs for the first extended
\* codec of the kind only: one primary codec with payloadType =
\* sendPayloadType, followed by one rtx codec (payloadType =
\* sendRtxPayloadType, apt = sendPayloadType) iff sendRtxPayloadType is set,
\* whatever its value, 0 included.
C9_SendingCodecs ==
    (call.fn = "getSendingRtpParameters") =>
        LET capCodecs == call.extendedRtpCapabilities.codecs
            f == FirstOfKind(call.kind, capCodecs)
            codecs == call.ret.codecs
        IN  IF f = 0 THEN codecs = << >>
            ELSE /\ Len(codecs) >= 1
                 /\ codecs[1].payloadType = capCodecs[f].sendPayloadType
                 /\ codecs[1].name # "rtx"
                 /\ IF capCodecs[f].sendRtxPayloadType # null
                    THEN /\ Len(codecs) = 2
                         /\ codecs[2].name = "rtx"
                         /\ codecs[2].payloadType = capCodecs[f].sendRtxPayloadType
                         /\ codecs[2].parameters["apt"] = capCodecs[f].sendPayloadType
                    ELSE Len(codecs) = 1

\* C10: canSend(kind, extended) is true iff getSendingRtpParameters(kind,
\* extended) yields a non-empty codec list.
C10_CanSendIffSendingCodecs ==
    (call.fn = "getSendingRtpParameters") =>
        (canSend(call.kind, call.extendedRtpCapabilities)
            <=> call.ret.codecs # << >>)

\* Sending parameters with codecs for a kind that is not the kind of the
\* first extended codec.
C10_Witness ==
    /\ call.fn = "getSendingRtpParameters"
    /\ call.ret.codecs # << >>
    /\ Len(call.extendedRtpCapabilities.codecs) >= 2
    /\ call.extendedRtpCapabilities.codecs[1].kind # call.kind

---------------------------------------------------------------------------
(* C11-C12: the SDP extractor (SpecSdp).                                   *)

\* The media sections extractRtpCapabilities is to use: the first audio
\* and the first video section in document order.
UsedSections(media) ==
    { i \in 1..Len(media) :
        /\ media[i].type \in {"audio", "video"}
        /\ \A j \in 1..(i - 1) : media[j].type # media[i].type }

\* The codec lines of the used sections, each with its section's kind.
RECURSIVE UsedCodecLines(_, _)
UsedCodecLines(media, i) ==
    IF i > Len(media) THEN << >>
    ELSE (IF i \in UsedSections(media)
          THEN [ l \in 1..Len(media[i].rtp) |->
                   [ kind |-> media[i].type, rtp |-> media[i].rtp[l] ] ]
          ELSE << >>)
         \o UsedCodecLines(media, i + 1)

CodecOfLine(codec, line) ==
    /\ codec.preferredPayloadType = line.rtp.payload
    /\ codec.name = line.rtp.codec
    /\ codec.clockRate = line.rtp.rate
    /\ codec.kind = line.kind

\* C11: the codec list of extractRtpCapabilities holds exactly one codec
\* capability per codec line of the first audio and the first video section
\* (with the line's payload type, name, clock rate and kind), whatever
\* payload types the two sections advertise, and nothing from any other
\* section.
C11_OneCodecPerUsedLine ==
    call.fn = "extractRtpCapabilities" =>
        LET lines  == UsedCodecLines(call.sdpObj.media, 1)
            codecs == call.ret.codecs
        IN  /\ Len(codecs) = Len(lines)
            /\ \A l \in 1..Len(lines) :
                   \E c \in 1..Len(codecs) : CodecOfLine(codecs[c], lines[l])
            /\ \A c \in 1..Len(codecs) :
                   \E l \in 1..Len(lines) : CodecOfLine(codecs[c], lines[l])

\* The sections that have an ICE user-fragment and a nonzero port.
ActiveSections(media) ==
    { i \in 1..Len(media) : media[i].iceUfrag # "" /\ media[i].port # 0 }

FirstActive(media) ==
    CHOOSE i \in ActiveSections(media) :
        \A j \in ActiveSections(media) : i <= j

\* C12: extractDtlsParameters reads the first media section that has an ICE
\* user-fragment and a nonzero port: the role is client for setup active,
\* server for passive, auto for actpass and unset otherwise; the one
\* fingerprint is the section's or, when it has none, the session's; with
\* no such section the call throws and returns no parameters.
C12_DtlsParameters ==
    call.fn = "extractDtlsParameters" =>
        LET media == call.sdpObj.media
        IN  IF ActiveSections(media) = {}
            THEN "threw" \in DOMAIN call.ret
            ELSE LET m  == media[FirstActive(media)]
                     fp == IF m.fingerprint # noFingerprint
                           THEN m.fingerprint
                           ELSE call.sdpObj.fingerprint
                 IN  IF fp = noFingerprint
                     THEN "threw" \in DOMAIN call.ret
                     ELSE /\ "threw" \notin DOMAIN call.ret
                          /\ call.ret.role =
                                 (IF m.setup = "active" THEN "client"
                                  ELSE IF m.setup = "passive" THEN "server"
                                  ELSE IF m.setup = "actpass" THEN "auto"
                                  ELSE "")
                          /\ call.ret.fingerprints =
                                 << [ algorithm |-> fp.type,
                                      value     |-> fp.hash ] >>

\* C12 witness: the first section has an ICE user-fragment and port 0 (with
\* setup active and its own fingerprint), the second is the active one with
\* setup actpass and no fingerprint: the result is role auto with the
\* session-level fingerprint.
C12_Witness ==
    /\ call.fn = "extractDtlsParameters"
    /\ Len(call.sdpObj.media) >= 2
    /\ call.sdpObj.media[1].iceUfrag # ""
    /\ call.sdpObj.media[1].port = 0
    /\ call.sdpObj.media[1].setup = "active"
    /\ 2 \in ActiveSections(call.sdpObj.media)
    /\ FirstActive(call.sdpObj.media) = 2
    /\ call.sdpObj.media[2].fingerprint = noFingerprint
    /\ "threw" \notin DOMAIN call.ret
    /\ call.ret.role = "auto"
    /\ call.ret.fingerprints =
           << [ algorithm |-> SessionFingerprint.type,
                value     |-> SessionFingerprint.hash ] >>

---------------------------------------------------------------------------
(* C13: kind consistency of the extended set (SpecOrtc).                   *)

\* The local header extensions (their indices) that match a remote one.
MatchingLocalExt(localExts, remoteExt) ==
    { j \in 1..Len(localExts) :
        matchCapHeaderExtensions(localExts[j], remoteExt) }

\* The remote header extensions that have a matching local one, in the
\* remote's order: the sources R of the extended header extensions.
NegotiableRemoteExts(localExts, remoteExts) ==
    SelectSeq(remoteExts, LAMBDA r : MatchingLocalExt(localExts, r) # {})

\* A source's kind agrees with the entry's: it is not a set value that
\* differs from the entry's kind.
KindAgrees(sourceKind, entryKind) ==
    sourceKind = "" \/ sourceKind = entryKind

\* The extended codecs agree in kind with their local and remote codecs.
C13_CodecKinds ==
    LET localCodecs == call.localCaps.codecs
        kept == NegotiableRemote(localCodecs, call.remoteCaps.codecs)
    IN  /\ Len(call.ret.codecs) = Len(kept)
        /\ \A i \in 1..Len(kept) :
               LET ms == MatchingLocal(localCodecs, kept[i])
                   L  == localCodecs[CHOOSE j \in ms : \A k \in ms : j <= k]
               IN  /\ KindAgrees(L.kind, call.ret.codecs[i].kind)
                   /\ KindAgrees(kept[i].kind, call.ret.codecs[i].kind)

\* The extended header extensions agree in kind with their local and
\* remote extensions, and one whose local extension is restricted to a
\* kind is left out of the sending and the full receiving parameters of
\* the other kind.
C13_HeaderExtensionKinds ==
    LET localExts == call.localCaps.headerExtensions
        kept == NegotiableRemoteExts(localExts, call.remoteCaps.headerExtensions)
    IN  /\ Len(call.ret.headerExtensions) = Len(kept)
        /\ \A i \in 1..Len(kept) :
               LET ms == MatchingLocalExt(localExts, kept[i])
                   L  == localExts[CHOOSE j \in ms : \A k \in ms : j <= k]
                   e  == call.ret.headerExtensions[i]
               IN  /\ KindAgrees(L.kind, e.kind)
                   /\ KindAgrees(kept[i].kind, e.kind)
                   /\ \A kind \in Kinds :
                          (L.kind # "" /\ L.kind # kind) =>
                              /\ paramExtsFrom(kind, << e >>, TRUE, 1) = << >>
                              /\ paramExtsFrom(kind, << e >>, FALSE, 1) = << >>

\* C13: every extended codec and every extended header extension built by
\* getExtendedRtpCapabilities from a local entry L and a remote entry R has
\* a kind that neither L.kind nor R.kind, when set, differs from; so a
\* header extension whose local source is restricted to one kind is never
\* put in the sending or full receiving parameters of the other kind.
C13_KindConsistency ==
    (call.fn = "getExtendedRtpCapabilities") =>
        C13_CodecKinds /\ C13_HeaderExtensionKinds

===========================================================================
